---- MODULE Spec2Model ----
(***************************************************************************)
(* Acts::AdaptiveMultiVertexFinder::find                                   *)
(* (Core/include/Acts/Vertexing/AdaptiveMultiVertexFinder.ipp) as a state  *)
(* machine.  One run of find is one behaviour: the position in the body of *)
(* find is pc, the locals of find are variables, and every call of a       *)
(* collaborator (seed finder, impact parameter estimator, multi vertex     *)
(* fitter) draws its outcome from a small set.  find is a template over    *)
(* its collaborators: with collaborators = "any" a call may return         *)
(* everything the set holds, an error included; with "exact" no call       *)
(* fails, the estimator finds every track on the vertex and a refitted     *)
(* track keeps its weight, which keeps runs on longer inputs small.        *)
(*                                                                         *)
(* Numbers.  Positions and variances are integers.  Covariance matrices    *)
(* are diagonal and written as the record of their diagonal.  A track      *)
(* weight is counted in halves: 2 is the weight 1.0, 1 is 0.5, 0 is 0.     *)
(* A significance s = sqrt(q) is kept as the rational q = num/den, and     *)
(* s < m is decided as m > 0 /\ num < m*m*den.                             *)
(***************************************************************************)
EXTENDS Integers, Sequences, FiniteSets, TLC

\* Longest input track list.
MaxTracks == 2
\* Largest value of the configuration's maxIterations.
MaxIterations == 2

VARIABLES
  pc,                 \* position in find: start, loop, seed, prepare, fit,
                      \* delete, output, done
  cfg,                \* m_cfg
  allTracks,          \* argument allTracks (= origTracks)
  vertexingOptions,   \* argument vertexingOptions: constraint, useConstraintInFit
  seedTracks,         \* local seedTracks
  removedSeedTracks,  \* local removedSeedTracks
  searchTracks,       \* local searchTracks of the current iteration
  currentConstraint,  \* local currentConstraint of the current iteration
  iteration,          \* local iteration
  allVertices,        \* owning vector: sequence of addresses
  allVerticesPtr,     \* non-owning vector: sequence of addresses
  heap,               \* the Vertex objects alive, by address
  fitterState,        \* vtxInfoMap, tracksAtVerticesMap, vertexCollection, multiMap
  seedFinderState,    \* tracksToRemove, and the options of the last seeding call
  lastEval,           \* history: nCompatibleTracks, isGoodVertex, keepVertex of
                      \* the last evaluation
  result,             \* what find returned
  calls,              \* history: number of calls of each collaborator
  firstError,         \* history: the first error a collaborator returned
  lastStep,           \* history: what the last step of find did
  acceptedAt,         \* history: Len(allVerticesPtr) at the end of each iteration
  collaborators       \* the seed finder, estimator and fitter find is
                      \* instantiated with (sfinder_t, vfitter_t): "any" or
                      \* "exact"

vars == <<pc, cfg, allTracks, vertexingOptions, seedTracks, removedSeedTracks,
          searchTracks, currentConstraint, iteration, allVertices,
          allVerticesPtr, heap, fitterState, seedFinderState, lastEval,
          result, calls, firstError, lastStep, acceptedAt, collaborators>>

----------------------------------------------------------------------------
(* Helpers on sequences and functions.                                     *)

Range(s) == {s[i] : i \in DOMAIN s}

Front(s) == SubSeq(s, 1, Len(s) - 1)

RemoveAt(s, i) == SubSeq(s, 1, i - 1) \o SubSeq(s, i + 1, Len(s))

\* std::find_if(s.begin(), s.end(), == x): the first index of x, 0 for end().
FindIndex(s, x) ==
  IF \E i \in DOMAIN s : s[i] = x
  THEN CHOOSE i \in DOMAIN s : s[i] = x /\ \A j \in 1..(i - 1) : s[j] # x
  ELSE 0

Abs(n) == IF n < 0 THEN -n ELSE n

SetMax(S) == CHOOSE m \in S : \A n \in S : n <= m

Vec(x, y, z, t) == [x |-> x, y |-> y, z |-> z, t |-> t]

\* Sequences over S of length at most n.
SeqUpTo(S, n) == UNION {[1..k -> S] : k \in 0..n}

----------------------------------------------------------------------------
(* The inputs of a run and the values the collaborators may produce.       *)

TrackIds == 1..MaxTracks

\* m_extractParameters(*trk).position(geoCtx)[eZ]: tracks sit at z = 1, 3, ...
TrackZ(trk) == 2 * trk - 1

TheConstraint ==
  [pos |-> Vec(0, 0, 0, 0), cov |-> Vec(1, 1, 1, 1), fitQuality |-> "beam"]

BaseCfg ==
  [maxIterations |-> 0,
   addSingleTrackVertices |-> FALSE,
   doRealMultiVertex |-> FALSE,
   useSeedConstraint |-> FALSE,
   useTime |-> FALSE,
   useFastCompatibility |-> TRUE,
   do3dSplitting |-> FALSE,
   tracksMaxZinterval |-> 1,
   tracksMaxSignificance |-> 2,
   maxVertexChi2 |-> 2,
   minWeight |-> 0,
   maximumVertexContaminationNum |-> 1,
   maximumVertexContaminationDen |-> 2,
   maxMergeVertexSignificance |-> 1,
   looseConstrValue |-> 4,
   defaultConstrFitQuality |-> "loose"]

\* The settings explored: <<addSingleTrackVertices, doRealMultiVertex,
\* useSeedConstraint, useTime, useFastCompatibility, do3dSplitting>> of the
\* configuration with useConstraintInFit of the options.
Settings ==
  { <<FALSE, FALSE, FALSE, FALSE, TRUE, FALSE, FALSE>>,
    <<TRUE, TRUE, TRUE, FALSE, FALSE, FALSE, TRUE>>,
    <<TRUE, FALSE, FALSE, FALSE, TRUE, TRUE, TRUE>>,
    <<FALSE, TRUE, FALSE, TRUE, FALSE, TRUE, FALSE>>,
    <<TRUE, TRUE, TRUE, FALSE, TRUE, FALSE, FALSE>> }

SingleTrackSetting == <<TRUE, TRUE, TRUE, FALSE, FALSE, FALSE, TRUE>>

ConfigOf(f, m) ==
  [BaseCfg EXCEPT !.maxIterations = m,
                  !.addSingleTrackVertices = f[1],
                  !.doRealMultiVertex = f[2],
                  !.useSeedConstraint = f[3],
                  !.useTime = f[4],
                  !.useFastCompatibility = f[5],
                  !.do3dSplitting = f[6]]

OptionsOf(f) == [constraint |-> TheConstraint, useConstraintInFit |-> f[7]]

\* The settings with addSingleTrackVertices and useConstraintInFit, without
\* and with doRealMultiVertex, explored with the two thresholds of
\* addCompatibleTracksToVertex beyond every z distance (at most 5) and every
\* significance (at most 3) of a run.
WideSettings ==
  { <<TRUE, FALSE, FALSE, FALSE, TRUE, FALSE, TRUE>>,
    <<TRUE, TRUE, TRUE, FALSE, FALSE, FALSE, TRUE>> }

WideConfigOf(f, m) ==
  [ConfigOf(f, m) EXCEPT !.tracksMaxZinterval = 6,
                         !.tracksMaxSignificance = 4]

\* What the seed finder may return as the last vertex of its list.
SeedPositions == {Vec(0, 0, 0, 0), Vec(0, 0, 2, 0), Vec(0, 0, 5, 0)}

SeedVertices ==
  { [pos |-> p, cov |-> Vec(2, 2, 2, 2), fitQuality |-> "seed",
     tracksAtVertex |-> <<>>] : p \in SeedPositions }

SeedErrors == IF collaborators = "any" THEN {"SeedFinderError"} ELSE {}

\* What m_cfg.seedFinder.find may return: an error, or a list whose last
\* vertex is the seed.
SeedResults ==
  [error : SeedErrors, vertex : {CHOOSE v \in SeedVertices : TRUE}]
    \cup [error : {"none"}, vertex : SeedVertices]

\* What the impact parameter estimator may return: a track on the vertex, a
\* track far from it in d0, and a track far from it in d0 without an error
\* on d0 or, with useTime, a track far from it in time.
ImpactParameters(c) ==
  { [d0 |-> 0, z0 |-> 0, sigmaD0 |-> 1, sigmaZ0 |-> 1, deltaT |-> 0, sigmaDeltaT |-> 1] }
  \cup
  (IF collaborators = "any"
   THEN { [d0 |-> 3, z0 |-> 0, sigmaD0 |-> 1, sigmaZ0 |-> 1, deltaT |-> 0, sigmaDeltaT |-> 1],
          IF c.useTime
          THEN [d0 |-> 0, z0 |-> 0, sigmaD0 |-> 1, sigmaZ0 |-> 1, deltaT |-> 3, sigmaDeltaT |-> 1]
          ELSE [d0 |-> 3, z0 |-> 0, sigmaD0 |-> 0, sigmaZ0 |-> 1, deltaT |-> 0, sigmaDeltaT |-> 1] }
   ELSE {})

IPErrors == IF collaborators = "any" THEN {"IPEstimatorError"} ELSE {}

\* What m_cfg.ipEstimator.getImpactParameters may return.
IPResult(c) ==
  [error : IPErrors, ipas : {CHOOSE i \in ImpactParameters(c) : TRUE}]
    \cup [error : {"none"}, ipas : ImpactParameters(c)]

\* What the fitter may write to a vertex of vertexCollection: a position with
\* a covariance.  With do3dSplitting one more position differs from the first
\* in x (or in t, with useTime) only.
FitVertexValues(c) ==
  { [pos |-> Vec(0, 0, 1, 0), cov |-> Vec(1, 1, 1, 1)],
    [pos |-> Vec(0, 0, 3, 0), cov |-> Vec(1, 1, 1, 1)] }
    \cup (IF collaborators = "any"
          THEN {[pos |-> Vec(0, 0, 1, 0), cov |-> Vec(0, 0, 0, 0)]}
          ELSE {})
    \cup (IF c.do3dSplitting
          THEN {[pos |-> IF c.useTime THEN Vec(0, 0, 1, 2) ELSE Vec(2, 0, 1, 0),
                 cov |-> Vec(1, 1, 1, 1)]}
          ELSE {})

\* What the fitter may write to a TrackAtVertex of a vertex of vertexCollection
\* (trackWeight in halves): a track of full weight, a track of half weight,
\* and a track of no weight, which has a compatibility above the threshold
\* with useFastCompatibility and the compatibility 0 without.
FitTrackValues(c) ==
  { [trackWeight |-> 2, chi2Track |-> 0, vertexCompatibility |-> 0],
    IF c.useFastCompatibility
    THEN [trackWeight |-> 0, chi2Track |-> 3, vertexCompatibility |-> 3]
    ELSE [trackWeight |-> 0, chi2Track |-> 0, vertexCompatibility |-> 0] }
  \cup
  (IF collaborators = "any"
   THEN {[trackWeight |-> 1, chi2Track |-> 0, vertexCompatibility |-> 1]}
   ELSE {})

\* What a fit may write to a TrackAtVertex of a vertex that was fitted before:
\* the track keeps its full weight or shares it with another vertex.
RefitTrackValues ==
  { [trackWeight |-> 2, chi2Track |-> 0, vertexCompatibility |-> 0] }
  \cup
  (IF collaborators = "any"
   THEN {[trackWeight |-> 1, chi2Track |-> 0, vertexCompatibility |-> 1]}
   ELSE {})

FitErrors == IF collaborators = "any" THEN {"FitterError"} ELSE {}

----------------------------------------------------------------------------
(* Seeding: doSeeding and setConstraintAfterSeeding.                       *)

\* setConstraintAfterSeeding: the constraint and the seed vertex after the call.
SetConstraintAfterSeeding(constraint, useVertexConstraintInFit, seedVertex) ==
  IF useVertexConstraintInFit
  THEN IF ~cfg.useSeedConstraint
       THEN [constraint |-> constraint,
             seedVertex |-> [seedVertex EXCEPT !.cov = constraint.cov]]
       ELSE [constraint |-> [constraint EXCEPT !.pos = seedVertex.pos,
                                               !.cov = seedVertex.cov],
             seedVertex |-> seedVertex]
  ELSE [constraint |->
          [pos |-> seedVertex.pos,
           cov |-> Vec(cfg.looseConstrValue, cfg.looseConstrValue,
                       cfg.looseConstrValue, cfg.looseConstrValue),
           fitQuality |-> cfg.defaultConstrFitQuality],
        seedVertex |-> seedVertex]

\* doSeeding without the assignment of lines 152-154.
DoSeedingWithoutRemovedTracks(trackVector, constraint, options, removed, seedResult) ==
  LET seedOptions == [options EXCEPT !.constraint = constraint]
      sfs == [tracksToRemove |-> <<>>,
              tracks |-> trackVector,
              constraint |-> seedOptions.constraint]
  IN IF seedResult.error # "none"
     THEN [error |-> seedResult.error, seedFinderState |-> sfs,
           constraint |-> constraint, seedVertex |-> seedResult.vertex]
     ELSE LET upd == SetConstraintAfterSeeding(constraint,
                       seedOptions.useConstraintInFit, seedResult.vertex)
          IN [error |-> "none", seedFinderState |-> sfs,
              constraint |-> upd.constraint, seedVertex |-> upd.seedVertex]

\* doSeeding, given what m_cfg.seedFinder.find returned (an error, or the last
\* vertex of its list): the error, or the seed vertex and the updated
\* constraint; the seed finder state holds what the seed finder was handed.
DoSeeding(trackVector, constraint, options, removed, seedResult) ==
  LET seedOptions == [options EXCEPT !.constraint = constraint]
      sfs == [tracksToRemove |-> removed,
              tracks |-> trackVector,
              constraint |-> seedOptions.constraint]
  IN IF seedResult.error # "none"
     THEN [error |-> seedResult.error, seedFinderState |-> sfs,
           constraint |-> constraint, seedVertex |-> seedResult.vertex]
     ELSE LET upd == SetConstraintAfterSeeding(constraint,
                       seedOptions.useConstraintInFit, seedResult.vertex)
          IN [error |-> "none", seedFinderState |-> sfs,
              constraint |-> upd.constraint, seedVertex |-> upd.seedVertex]

----------------------------------------------------------------------------
(* Attaching tracks: getIPSignificance, addCompatibleTracksToVertex,       *)
(* canRecoverFromNoCompatibleTracks, canPrepareVertexForFit.               *)

Sq(n) == n * n

\* s < m for the significance s = sqrt(q.num / q.den) >= 0.
SigLess(q, m) == m > 0 /\ q.num < m * m * q.den

\* getIPSignificance, given what the estimator returned: significance squared.
GetIPSignificance(ipas) ==
  LET chi2Time ==
        IF cfg.useTime /\ ipas.sigmaDeltaT > 0
        THEN [num |-> Sq(ipas.deltaT), den |-> Sq(ipas.sigmaDeltaT)]
        ELSE [num |-> 0, den |-> 1]
  IN IF ipas.sigmaD0 > 0 /\ ipas.sigmaZ0 > 0
     THEN [num |-> Sq(ipas.d0) * Sq(ipas.sigmaZ0) * chi2Time.den
                     + Sq(ipas.z0) * Sq(ipas.sigmaD0) * chi2Time.den
                     + chi2Time.num * Sq(ipas.sigmaD0) * Sq(ipas.sigmaZ0),
           den |-> Sq(ipas.sigmaD0) * Sq(ipas.sigmaZ0) * chi2Time.den]
     ELSE [num |-> 0, den |-> 1]

\* TrackAtVertex(params, trk): a fresh record.
NewTrackAtVertex(trk) ==
  [originalParams |-> trk, trackWeight |-> 2, chi2Track |-> 0,
   vertexCompatibility |-> 0, isLinearized |-> FALSE]

\* VertexInfo(constraint, pos): a fresh record without track links.
NewVertexInfo(constraint, pos) ==
  [constraint |-> constraint, seedPosition |-> pos, trackLinks |-> <<>>]

\* The link put at the front of trackLinks in the place of push_back.
LinkTrackAtFront(fs, trk, vtx) ==
  [fs EXCEPT
     !.tracksAtVerticesMap =
        IF <<trk, vtx>> \in DOMAIN @ THEN @
        ELSE @ @@ (<<trk, vtx>> :> NewTrackAtVertex(trk)),
     !.vtxInfoMap = [@ EXCEPT ![vtx].trackLinks = <<trk>> \o @]]

\* tracksAtVerticesMap.emplace (no effect on a key already there) and
\* vtxInfoMap[&vtx].trackLinks.push_back.
LinkTrack(fs, trk, vtx) ==
  [fs EXCEPT
     !.tracksAtVerticesMap =
        IF <<trk, vtx>> \in DOMAIN @ THEN @
        ELSE @ @@ (<<trk, vtx>> :> NewTrackAtVertex(trk)),
     !.vtxInfoMap = [@ EXCEPT ![vtx].trackLinks = Append(@, trk)]]

\* addCompatibleTracksToVertex from track i on; ip[i] is what the estimator
\* returns for tracks[i], n the estimator calls made so far.
RECURSIVE AddCompatibleTracksFrom(_, _, _, _, _, _, _)
AddCompatibleTracksFrom(i, tracks, vtx, vtxZ, fs, ip, n) ==
  IF i > Len(tracks)
  THEN [error |-> "none", fs |-> fs, calls |-> n]
  ELSE IF cfg.tracksMaxZinterval < Abs(TrackZ(tracks[i]) - vtxZ)
  THEN AddCompatibleTracksFrom(i + 1, tracks, vtx, vtxZ, fs, ip, n)
  ELSE IF ip[i].error # "none"
  THEN [error |-> ip[i].error, fs |-> fs, calls |-> n + 1]
  ELSE AddCompatibleTracksFrom(i + 1, tracks, vtx, vtxZ,
         IF SigLess(GetIPSignificance(ip[i].ipas), cfg.tracksMaxSignificance)
         THEN LinkTrack(fs, tracks[i], vtx) ELSE fs,
         ip, n + 1)

AddCompatibleTracksToVertex(tracks, vtx, vtxZ, fs, ip) ==
  AddCompatibleTracksFrom(1, tracks, vtx, vtxZ, fs, ip, 0)

\* The loop over seedTracks of canRecoverFromNoCompatibleTracks and of
\* removeTrackIfIncompatible: the index of the first track with the smallest
\* |z - vtxZ|, 0 when seedTrks is empty.
RECURSIVE NearestFrom(_, _, _, _)
NearestFrom(i, seedTrks, vtxZ, best) ==
  IF i > Len(seedTrks) THEN best
  ELSE NearestFrom(i + 1, seedTrks, vtxZ,
         IF best = 0 \/ Abs(TrackZ(seedTrks[i]) - vtxZ)
                          < Abs(TrackZ(seedTrks[best]) - vtxZ)
         THEN i ELSE best)

NearestTrack(seedTrks, vtxZ) == NearestFrom(1, seedTrks, vtxZ, 0)

\* canRecoverFromNoCompatibleTracks giving up without the move and the
\* second attachment.
CannotRecoverFromNoCompatibleTracks(tracks, seedTrks, vtx, constraint, fs, hp, ip) ==
  [error |-> "none", value |-> fs.vtxInfoMap[vtx].trackLinks # <<>>,
   fs |-> fs, heap |-> hp, calls |-> 0]

\* canRecoverFromNoCompatibleTracks; ip is what the estimator returns in the
\* second attachment.
CanRecoverFromNoCompatibleTracks(tracks, seedTrks, vtx, constraint, fs, hp, ip) ==
  IF fs.vtxInfoMap[vtx].trackLinks = <<>>
  THEN LET near == NearestTrack(seedTrks, hp[vtx].pos.z)
       IN IF near # 0
          THEN LET newPos == Vec(0, 0, TrackZ(seedTrks[near]), 0)
                   hp2 == [hp EXCEPT ![vtx].pos = newPos]
                   fs2 == [fs EXCEPT !.vtxInfoMap[vtx] =
                                        NewVertexInfo(constraint, newPos)]
                   res == AddCompatibleTracksToVertex(tracks, vtx, newPos.z,
                                                      fs2, ip)
               IN IF res.error # "none"
                  THEN [error |-> res.error, value |-> FALSE, fs |-> res.fs,
                        heap |-> hp2, calls |-> res.calls]
                  ELSE [error |-> "none",
                        value |-> res.fs.vtxInfoMap[vtx].trackLinks # <<>>,
                        fs |-> res.fs, heap |-> hp2, calls |-> res.calls]
          ELSE [error |-> "none", value |-> FALSE, fs |-> fs, heap |-> hp,
                calls |-> 0]
  ELSE [error |-> "none", value |-> TRUE, fs |-> fs, heap |-> hp, calls |-> 0]

\* canPrepareVertexForFit; ip1 and ip2 are what the estimator returns in the
\* first and in the second attachment.
CanPrepareVertexForFit(tracks, seedTrks, vtx, constraint, fs, hp, ip1, ip2) ==
  LET fs1 == [fs EXCEPT !.vtxInfoMap =
                 IF vtx \in DOMAIN @
                 THEN [@ EXCEPT ![vtx] = NewVertexInfo(constraint, hp[vtx].pos)]
                 ELSE @ @@ (vtx :> NewVertexInfo(constraint, hp[vtx].pos))]
      resComp == AddCompatibleTracksToVertex(tracks, vtx, hp[vtx].pos.z, fs1, ip1)
  IN IF resComp.error # "none"
     THEN [error |-> resComp.error, value |-> FALSE, fs |-> resComp.fs,
           heap |-> hp, calls |-> resComp.calls]
     ELSE LET resRec == CanRecoverFromNoCompatibleTracks(tracks, seedTrks, vtx,
                          constraint, resComp.fs, hp, ip2)
          IN [resRec EXCEPT !.calls = @ + resComp.calls]

----------------------------------------------------------------------------
(* Evaluation: checkVertexAndCompatibleTracks and the seed set updates.    *)

\* The compatibility condition of checkVertexAndCompatibleTracks and of
\* removeCompatibleTracksFromSeedTracks.
IsCompatibleTrack(trkAtVtx) ==
  \/ trkAtVtx.vertexCompatibility < cfg.maxVertexChi2 /\ cfg.useFastCompatibility
  \/ /\ trkAtVtx.trackWeight > cfg.minWeight
     /\ trkAtVtx.chi2Track < cfg.maxVertexChi2
     /\ ~cfg.useFastCompatibility

\* checkVertexAndCompatibleTracks from link i on, n compatible tracks so far:
\* <<nCompatibleTracks, isGoodVertex>>.
RECURSIVE CheckFrom(_, _, _, _, _, _)
CheckFrom(i, vtx, seedTrks, fs, useVertexConstraintInFit, n) ==
  LET links == fs.vtxInfoMap[vtx].trackLinks IN
  IF i > Len(links) THEN <<n, FALSE>>
  ELSE IF /\ IsCompatibleTrack(fs.tracksAtVerticesMap[<<links[i], vtx>>])
          /\ FindIndex(seedTrks, links[i]) # 0
  THEN IF cfg.addSingleTrackVertices /\ useVertexConstraintInFit
       THEN <<n + 1, TRUE>>
       ELSE IF n + 1 > 1
       THEN <<n + 1, TRUE>>
       ELSE CheckFrom(i + 1, vtx, seedTrks, fs, useVertexConstraintInFit, n + 1)
  ELSE CheckFrom(i + 1, vtx, seedTrks, fs, useVertexConstraintInFit, n)

\* checkVertexAndCompatibleTracks with nCompatibleTracks++ after the two
\* breaks.
CheckVertexCountingAfterBreak(vtx, seedTrks, fs, useVertexConstraintInFit) ==
  LET r == CheckFrom(1, vtx, seedTrks, fs, useVertexConstraintInFit, 0)
  IN <<IF r[2] THEN r[1] - 1 ELSE r[1], r[2]>>

\* checkVertexAndCompatibleTracks without the condition on
\* addSingleTrackVertices and useVertexConstraintInFit.
CheckVertexWithoutSingleTrackRule(vtx, seedTrks, fs, useVertexConstraintInFit) ==
  LET r == CheckFrom(1, vtx, seedTrks, fs, FALSE, 0)
  IN r

CheckVertexAndCompatibleTracks(vtx, seedTrks, fs, useVertexConstraintInFit) ==
  CheckFrom(1, vtx, seedTrks, fs, useVertexConstraintInFit, 0)

\* The number of rounds the loop of checkVertexAndCompatibleTracks runs from
\* link i on: the links it looks at before it ends or breaks.
RECURSIVE ExaminedFrom(_, _, _, _, _, _)
ExaminedFrom(i, vtx, seedTrks, fs, useVertexConstraintInFit, n) ==
  LET links == fs.vtxInfoMap[vtx].trackLinks IN
  IF i > Len(links) THEN 0
  ELSE IF /\ IsCompatibleTrack(fs.tracksAtVerticesMap[<<links[i], vtx>>])
          /\ FindIndex(seedTrks, links[i]) # 0
  THEN IF cfg.addSingleTrackVertices /\ useVertexConstraintInFit
       THEN 1
       ELSE IF n + 1 > 1
       THEN 1
       ELSE 1 + ExaminedFrom(i + 1, vtx, seedTrks, fs,
                             useVertexConstraintInFit, n + 1)
  ELSE 1 + ExaminedFrom(i + 1, vtx, seedTrks, fs, useVertexConstraintInFit, n)

ExaminedLinks(vtx, seedTrks, fs, useVertexConstraintInFit) ==
  ExaminedFrom(1, vtx, seedTrks, fs, useVertexConstraintInFit, 0)

\* removeCompatibleTracksFromSeedTracks from link i on.
RECURSIVE RemoveCompatibleFrom(_, _, _, _, _)
RemoveCompatibleFrom(i, vtx, seedTrks, fs, removed) ==
  LET links == fs.vtxInfoMap[vtx].trackLinks IN
  IF i > Len(links) THEN [seedTracks |-> seedTrks, removedSeedTracks |-> removed]
  ELSE IF /\ IsCompatibleTrack(fs.tracksAtVerticesMap[<<links[i], vtx>>])
          /\ FindIndex(seedTrks, links[i]) # 0
  THEN RemoveCompatibleFrom(i + 1, vtx,
         RemoveAt(seedTrks, FindIndex(seedTrks, links[i])), fs,
         Append(removed, links[i]))
  ELSE RemoveCompatibleFrom(i + 1, vtx, seedTrks, fs, removed)

\* removeCompatibleTracksFromSeedTracks without the erase of line 417.
RemoveCompatibleTracksRecordedOnly(vtx, seedTrks, fs, removed) ==
  [RemoveCompatibleFrom(1, vtx, seedTrks, fs, removed)
     EXCEPT !.seedTracks = seedTrks]

\* removeCompatibleTracksFromSeedTracks without the push_back of line 418.
RemoveCompatibleTracksUnrecorded(vtx, seedTrks, fs, removed) ==
  [RemoveCompatibleFrom(1, vtx, seedTrks, fs, removed)
     EXCEPT !.removedSeedTracks = removed]

RemoveCompatibleTracksFromSeedTracks(vtx, seedTrks, fs, removed) ==
  RemoveCompatibleFrom(1, vtx, seedTrks, fs, removed)

\* The first loop of removeTrackIfIncompatible from link i on: best is
\* <<maxCompatibility, maxCompSeedIt, removedTrack>>, maxCompSeedIt = 0 for end().
RECURSIVE MaxCompatibilityFrom(_, _, _, _, _)
MaxCompatibilityFrom(i, vtx, seedTrks, fs, best) ==
  LET links == fs.vtxInfoMap[vtx].trackLinks IN
  IF i > Len(links) THEN best
  ELSE LET compatibility ==
             fs.tracksAtVerticesMap[<<links[i], vtx>>].vertexCompatibility
           foundSeedIter == FindIndex(seedTrks, links[i])
       IN MaxCompatibilityFrom(i + 1, vtx, seedTrks, fs,
            IF compatibility > best[1] /\ foundSeedIter # 0
            THEN <<compatibility, foundSeedIter, links[i]>>
            ELSE best)

\* removeTrackIfIncompatible without its first loop: the closest track only.
RemoveTrackIfIncompatibleNearestOnly(vtx, seedTrks, fs, removed, hp) ==
  LET smallestDzSeedIter == NearestTrack(seedTrks, hp[vtx].pos.z)
  IN IF smallestDzSeedIter # 0
     THEN [value |-> TRUE,
           seedTracks |-> RemoveAt(seedTrks, smallestDzSeedIter),
           removedSeedTracks |-> Append(removed, seedTrks[smallestDzSeedIter])]
     ELSE [value |-> FALSE, seedTracks |-> seedTrks,
           removedSeedTracks |-> removed]

\* removeTrackIfIncompatible with push_back on seedTracks in the place of
\* erase.
RemoveTrackIfIncompatibleAppending(vtx, seedTrks, fs, removed, hp) ==
  LET best == MaxCompatibilityFrom(1, vtx, seedTrks, fs, <<0, 0, 0>>)
      smallestDzSeedIter == NearestTrack(seedTrks, hp[vtx].pos.z)
  IN IF best[2] # 0
     THEN [value |-> TRUE, seedTracks |-> Append(seedTrks, best[3]),
           removedSeedTracks |-> Append(removed, best[3])]
     ELSE IF smallestDzSeedIter # 0
     THEN [value |-> TRUE,
           seedTracks |-> Append(seedTrks, seedTrks[smallestDzSeedIter]),
           removedSeedTracks |-> Append(removed, seedTrks[smallestDzSeedIter])]
     ELSE [value |-> FALSE, seedTracks |-> seedTrks,
           removedSeedTracks |-> removed]

\* removeTrackIfIncompatible: the returned flag and the two track lists.
RemoveTrackIfIncompatible(vtx, seedTrks, fs, removed, hp) ==
  LET best == MaxCompatibilityFrom(1, vtx, seedTrks, fs, <<0, 0, 0>>)
      smallestDzSeedIter == NearestTrack(seedTrks, hp[vtx].pos.z)
  IN IF best[2] # 0
     THEN [value |-> TRUE, seedTracks |-> RemoveAt(seedTrks, best[2]),
           removedSeedTracks |-> Append(removed, best[3])]
     ELSE IF smallestDzSeedIter # 0
     THEN [value |-> TRUE,
           seedTracks |-> RemoveAt(seedTrks, smallestDzSeedIter),
           removedSeedTracks |-> Append(removed, seedTrks[smallestDzSeedIter])]
     ELSE [value |-> FALSE, seedTracks |-> seedTrks,
           removedSeedTracks |-> removed]

----------------------------------------------------------------------------
(* Acceptance: keepNewVertex and isMergedVertex.                           *)

RECURSIVE SumSeq(_)
SumSeq(s) == IF s = <<>> THEN 0 ELSE s[1] + SumSeq(Tail(s))

\* The trackWeight of every link of vtx, in trackLinks order (in halves).
LinkWeights(vtx, fs) ==
  LET links == fs.vtxInfoMap[vtx].trackLinks
  IN [i \in DOMAIN links |-> fs.tracksAtVerticesMap[<<links[i], vtx>>].trackWeight]

\* contamination of keepNewVertex as a rational: sum w(1-w) / sum w^2, 0 when
\* the denominator is 0.
Contamination(vtx, fs) ==
  LET w == LinkWeights(vtx, fs)
      contaminationNum == SumSeq([i \in DOMAIN w |-> w[i] * (2 - w[i])])
      contaminationDeNom == SumSeq([i \in DOMAIN w |-> w[i] * w[i]])
  IN IF contaminationDeNom # 0
     THEN [num |-> contaminationNum, den |-> contaminationDeNom]
     ELSE [num |-> 0, den |-> 1]

\* The comparison of keepNewVertex the wrong way round.
IsContaminatedInverted(vtx, fs) ==
  LET c == Contamination(vtx, fs)
  IN c.num * cfg.maximumVertexContaminationDen
       < cfg.maximumVertexContaminationNum * c.den

\* contamination > m_cfg.maximumVertexContamination
IsContaminated(vtx, fs) ==
  LET c == Contamination(vtx, fs)
  IN c.num * cfg.maximumVertexContaminationDen
       > cfg.maximumVertexContaminationNum * c.den

\* safeInverse of a diagonal matrix: it exists unless an entry is 0.
SafeInverseExists(diag) == \A i \in DOMAIN diag : diag[i] # 0

RECURSIVE Product(_)
Product(s) == IF s = <<>> THEN 1 ELSE s[1] * Product(Tail(s))

\* deltaPos.dot(sumCovInverse * deltaPos) for a diagonal sumCov, as a rational.
QuadraticForm(delta, diag) ==
  [num |-> SumSeq([i \in DOMAIN delta |->
                     Sq(delta[i]) * Product(RemoveAt(diag, i))]),
   den |-> Product(diag)]

\* One round of the loop of isMergedVertex: whether the pair (candidate, other)
\* is significant, i.e. not skipped and significance < maxMergeVertexSignificance.
MergedPair(candidate, other) ==
  IF ~cfg.do3dSplitting
  THEN LET deltaZPos == other.pos.z - candidate.pos.z
           sumVarZ == other.cov.z + candidate.cov.z
       IN /\ ~(sumVarZ <= 0)
          /\ SigLess([num |-> Sq(deltaZPos), den |-> sumVarZ],
                     cfg.maxMergeVertexSignificance)
  ELSE IF cfg.useTime
  THEN LET deltaPos == <<other.pos.x - candidate.pos.x,
                         other.pos.y - candidate.pos.y,
                         other.pos.z - candidate.pos.z,
                         other.pos.t - candidate.pos.t>>
           sumCov == <<candidate.cov.x + other.cov.x,
                       candidate.cov.y + other.cov.y,
                       candidate.cov.z + other.cov.z,
                       candidate.cov.t + other.cov.t>>
       IN /\ SafeInverseExists(sumCov)
          /\ SigLess(QuadraticForm(deltaPos, sumCov),
                     cfg.maxMergeVertexSignificance)
  ELSE LET deltaPos == <<other.pos.x - candidate.pos.x,
                         other.pos.y - candidate.pos.y,
                         other.pos.z - candidate.pos.z>>
           sumCov == <<candidate.cov.x + other.cov.x,
                       candidate.cov.y + other.cov.y,
                       candidate.cov.z + other.cov.z>>
       IN /\ SafeInverseExists(sumCov)
          /\ SigLess(QuadraticForm(deltaPos, sumCov),
                     cfg.maxMergeVertexSignificance)

\* isMergedVertex: some other vertex of the list is significant for vtx.
IsMergedVertex(vtx, vertices, hp) ==
  \E i \in DOMAIN vertices :
     /\ vertices[i] # vtx
     /\ MergedPair(hp[vtx], hp[vertices[i]])

\* keepNewVertex without the call of isMergedVertex.
KeepNewVertexUnmerged(vtx, vertices, fs, hp) ==
  IF IsContaminated(vtx, fs) THEN FALSE ELSE TRUE

\* keepNewVertex without its two checks.
KeepNewVertexAlways(vtx, vertices, fs, hp) == TRUE

KeepNewVertex(vtx, vertices, fs, hp) ==
  IF IsContaminated(vtx, fs) THEN FALSE
  ELSE IF IsMergedVertex(vtx, vertices, hp) THEN FALSE
  ELSE TRUE

----------------------------------------------------------------------------
(* The fitter state's own operations and the multi vertex fitter.          *)

\* addVertexToMultiMap: one (track, vertex) entry for every link of vtx.
AddVertexToMultiMap(fs, vtx) ==
  LET links == fs.vtxInfoMap[vtx].trackLinks
  IN [fs EXCEPT !.multiMap = @ \o [i \in DOMAIN links |-> <<links[i], vtx>>]]

\* removeVertexFromMultiMap: every entry of vtx is erased.
RemoveVertexFromMultiMap(fs, vtx) ==
  [fs EXCEPT !.multiMap = SelectSeq(@, LAMBDA e : e[2] # vtx)]

\* removeVertexFromCollection: vtx is erased from vertexCollection; an error
\* when it is not there.
RemoveVertexFromCollection(fs, vtx) ==
  IF FindIndex(fs.vertexCollection, vtx) = 0
  THEN [error |-> "ElementNotFound", fs |-> fs]
  ELSE [error |-> "none",
        fs |-> [fs EXCEPT !.vertexCollection =
                  RemoveAt(@, FindIndex(@, vtx))]]

\* The vertices multiMap registers for a track linked to a vertex of S.
SharingVertices(fs, S) ==
  { e[2] : e \in { f \in Range(fs.multiMap) :
                     \E v \in S : f[1] \in Range(fs.vtxInfoMap[v].trackLinks) } }

RECURSIVE CoupledVertices(_, _)
CoupledVertices(fs, S) ==
  LET T == S \cup SharingVertices(fs, S)
  IN IF T = S THEN S ELSE CoupledVertices(fs, T)

RECURSIVE SortedSeq(_)
SortedSeq(S) ==
  IF S = {} THEN <<>>
  ELSE LET m == CHOOSE x \in S : \A y \in S : x <= y
       IN <<m>> \o SortedSeq(S \ {m})

\* The vertexCollection addVtxToFit builds: the new vertex and every vertex
\* that shares a track with it, directly or through other vertices.
VerticesToFit(fs, vtx) ==
  <<vtx>> \o SortedSeq(CoupledVertices(fs, {vtx}) \ {vtx})

\* The (track, vertex) records of the vertices of vertexCollection.
FitKeys(fs) ==
  { k \in DOMAIN fs.tracksAtVerticesMap :
      /\ k[2] \in Range(fs.vertexCollection)
      /\ k[1] \in Range(fs.vtxInfoMap[k[2]].trackLinks) }

\* What a fit of vertexCollection may produce: an error, or (error "none") a
\* position and a covariance for every vertex of the collection and a weight,
\* a chi2 and a compatibility for every track linked to one of them; newVtx
\* is the vertex addVtxToFit adds (0 in fit, which adds none).
FitResults == {"none"} \cup FitErrors

FitVertexWrites(fs, error) ==
  IF error = "none"
  THEN [Range(fs.vertexCollection) -> FitVertexValues(cfg)]
  ELSE {<<>>}

FitNewTrackWrites(fs, error, newVtx) ==
  IF error = "none"
  THEN [{k \in FitKeys(fs) : k[2] = newVtx} -> FitTrackValues(cfg)]
  ELSE {<<>>}

FitOldTrackWrites(fs, error, newVtx) ==
  IF error = "none"
  THEN [{k \in FitKeys(fs) : k[2] # newVtx} -> RefitTrackValues]
  ELSE {<<>>}

\* The fitter state and the vertices after a successful fit with outcome out.
FitWrites(fs, hp, out) ==
  [fs |-> [fs EXCEPT !.tracksAtVerticesMap =
             [k \in DOMAIN @ |->
                IF k \in DOMAIN out.trk
                THEN [@[k] EXCEPT
                        !.trackWeight = out.trk[k].trackWeight,
                        !.chi2Track = out.trk[k].chi2Track,
                        !.vertexCompatibility = out.trk[k].vertexCompatibility,
                        !.isLinearized = TRUE]
                ELSE @[k]]],
   heap |-> [a \in DOMAIN hp |->
               IF a \in DOMAIN out.vtx
               THEN [hp[a] EXCEPT !.pos = out.vtx[a].pos,
                                  !.cov = out.vtx[a].cov]
               ELSE hp[a]]]

\* m_cfg.vertexFitter.addVtxToFit: the fitter state the fit runs on.
AddVtxToFitCollection(fs, vtx) ==
  [fs EXCEPT !.vertexCollection = VerticesToFit(fs, vtx)]

----------------------------------------------------------------------------
(* deleteLastVertex and getVertexOutputList.                               *)

\* clear() in the place of pop_back().
PopBackAll(vec) == <<>>

PopBack(vec) == Front(vec)

\* deleteLastVertex erasing the tracksAtVerticesMap entries of vtx in the
\* place of the loop of lines 588-594.
DeleteLastVertexErasingTracks(vtx, vertices, verticesPtr, fs, hp) ==
  LET fs1 == RemoveVertexFromMultiMap(fs, vtx)
      rem == RemoveVertexFromCollection(fs1, vtx)
      fs2 == [rem.fs EXCEPT !.tracksAtVerticesMap =
                [k \in {e \in DOMAIN @ : e[2] # vtx} |-> @[k]]]
      popped == [allVertices |-> PopBack(vertices),
                 allVerticesPtr |-> PopBack(verticesPtr),
                 heap |-> [a \in DOMAIN hp \ {vtx} |-> hp[a]]]
  IN IF rem.error # "none"
     THEN [error |-> rem.error, refit |-> FALSE, fs |-> rem.fs] @@ popped
     ELSE [error |-> "none", refit |-> fs2.vertexCollection # <<>>,
           fs |-> fs2] @@ popped

\* deleteLastVertex with the loop of lines 588-594 resetting every record.
DeleteLastVertexUnlinearizingAll(vtx, vertices, verticesPtr, fs, hp) ==
  LET fs1 == RemoveVertexFromMultiMap(fs, vtx)
      rem == RemoveVertexFromCollection(fs1, vtx)
      fs2 == [rem.fs EXCEPT !.tracksAtVerticesMap =
                [k \in DOMAIN @ |-> [@[k] EXCEPT !.isLinearized = FALSE]]]
      popped == [allVertices |-> PopBack(vertices),
                 allVerticesPtr |-> PopBack(verticesPtr),
                 heap |-> [a \in DOMAIN hp \ {vtx} |-> hp[a]]]
  IN IF rem.error # "none"
     THEN [error |-> rem.error, refit |-> FALSE, fs |-> rem.fs] @@ popped
     ELSE [error |-> "none", refit |-> fs2.vertexCollection # <<>>,
           fs |-> fs2] @@ popped

\* deleteLastVertex without lines 579-594: the two pops only.
DeleteLastVertexPoppingOnly(vtx, vertices, verticesPtr, fs, hp) ==
  [error |-> "none", refit |-> FALSE, fs |-> fs,
   allVertices |-> PopBack(vertices),
   allVerticesPtr |-> PopBack(verticesPtr),
   heap |-> [a \in DOMAIN hp \ {vtx} |-> hp[a]]]

\* deleteLastVertex up to the refit: the two vectors, the heap and the
\* fitter state, and whether the fitter is to be called.
DeleteLastVertexBeforeFit(vtx, vertices, verticesPtr, fs, hp) ==
  LET fs1 == RemoveVertexFromMultiMap(fs, vtx)
      rem == RemoveVertexFromCollection(fs1, vtx)
      fs2 == [rem.fs EXCEPT !.tracksAtVerticesMap =
                [k \in DOMAIN @ |->
                   IF k[2] = vtx THEN [@[k] EXCEPT !.isLinearized = FALSE]
                   ELSE @[k]]]
      popped == [allVertices |-> PopBack(vertices),
                 allVerticesPtr |-> PopBack(verticesPtr),
                 heap |-> [a \in DOMAIN hp \ {vtx} |-> hp[a]]]
  IN IF rem.error # "none"
     THEN [error |-> rem.error, refit |-> FALSE, fs |-> rem.fs] @@ popped
     ELSE [error |-> "none", refit |-> fs2.vertexCollection # <<>>,
           fs |-> fs2] @@ popped

\* The list of getVertexOutputList filled from the back of trackLinks.
TracksAtVertexReversed(vtx, fs) ==
  LET links == fs.vtxInfoMap[vtx].trackLinks
  IN [i \in DOMAIN links |->
        fs.tracksAtVerticesMap[<<links[Len(links) + 1 - i], vtx>>]]

\* The TrackAtVertex list getVertexOutputList attaches to vtx.
TracksAtVertex(vtx, fs) ==
  LET links == fs.vtxInfoMap[vtx].trackLinks
  IN [i \in DOMAIN links |-> fs.tracksAtVerticesMap[<<links[i], vtx>>]]

\* getVertexOutputList without setTracksAtVertex.
GetVertexOutputListUnfilled(verticesPtr, fs, hp) ==
  [i \in DOMAIN verticesPtr |-> hp[verticesPtr[i]]]

GetVertexOutputList(verticesPtr, fs, hp) ==
  [i \in DOMAIN verticesPtr |->
     [hp[verticesPtr[i]] EXCEPT
        !.tracksAtVertex = TracksAtVertex(verticesPtr[i], fs)]]

----------------------------------------------------------------------------
(* The run of find.                                                        *)

NoResult == [error |-> "pending", vertices |-> <<>>]

\* The runs explored.  Arbitrary collaborators: every setting, every
\* maxIterations up to MaxIterations and every track list up to MaxTracks
\* tracks, and two settings with thresholds that let every track pass.  Exact
\* collaborators: one more track and one more iteration, with single track
\* vertices and all tracks searched.
Init ==
  /\ pc = "start"
  /\ \/ /\ collaborators = "any"
        /\ \E f \in Settings, m \in (-1)..MaxIterations :
             /\ cfg = ConfigOf(f, m)
             /\ vertexingOptions = OptionsOf(f)
        /\ allTracks \in SeqUpTo(TrackIds, MaxTracks)
     \/ /\ collaborators = "any"
        /\ \E f \in WideSettings :
             /\ cfg = WideConfigOf(f, MaxIterations)
             /\ vertexingOptions = OptionsOf(f)
        /\ allTracks \in SeqUpTo(TrackIds, MaxTracks)
     \/ /\ collaborators = "exact"
        /\ cfg = ConfigOf(SingleTrackSetting, MaxIterations + 1)
        /\ vertexingOptions = OptionsOf(SingleTrackSetting)
        /\ allTracks = [i \in 1..(MaxTracks + 1) |-> i]
  /\ seedTracks = <<>>
  /\ removedSeedTracks = <<>>
  /\ searchTracks = <<>>
  /\ currentConstraint = TheConstraint
  /\ iteration = 0
  /\ allVertices = <<>>
  /\ allVerticesPtr = <<>>
  /\ heap = <<>>
  /\ fitterState = [vtxInfoMap |-> <<>>, tracksAtVerticesMap |-> <<>>,
                    vertexCollection |-> <<>>, multiMap |-> <<>>]
  /\ seedFinderState = [tracksToRemove |-> <<>>, tracks |-> <<>>,
                        constraint |-> TheConstraint]
  /\ lastEval = [nCompatibleTracks |-> 0, isGoodVertex |-> FALSE,
                 keepVertex |-> FALSE]
  /\ result = NoResult
  /\ calls = [seed |-> 0, ip |-> 0, fit |-> 0]
  /\ firstError = "none"
  /\ lastStep = "init"
  /\ acceptedAt = <<>>

\* break in the place of return <error>: the error is dropped.
ReturnErrorAsBreak(e) ==
  /\ pc' = "output"
  /\ UNCHANGED result

\* return <error>
ReturnError(e) ==
  /\ pc' = "done"
  /\ result' = [error |-> e, vertices |-> <<>>]

\* continue in the place of break: back to the condition of the loop.
BreakTargetContinue == "loop"

\* The statement a break of the while loop leads to.
BreakTarget == "output"

\* The address of the vertex candidate: &vtxCandidate = allVertices.back().
VtxCandidate == allVertices[Len(allVertices)]

\* Where std::make_unique may place a vertex: an address never used, or the
\* address of a vertex that was destroyed.
NewAddresses ==
  LET used == DOMAIN fitterState.vtxInfoMap \cup DOMAIN heap
  IN {IF used = {} THEN 1 ELSE SetMax(used) + 1} \cup (used \ DOMAIN heap)

\* find without the check of lines 17-20.
FindEntryUnchecked ==
  /\ pc = "start"
  /\ pc' = "loop"
  /\ seedTracks' = allTracks
  /\ lastStep' = "entered"
  /\ UNCHANGED <<collaborators, cfg, allTracks, vertexingOptions,
                 removedSeedTracks, searchTracks, currentConstraint,
                 iteration, allVertices, allVerticesPtr, heap, fitterState,
                 seedFinderState, lastEval, result, calls, firstError,
                 acceptedAt>>

\* Lines 17-35: the check of the input and the construction of the locals.
FindEntry ==
  /\ pc = "start"
  /\ IF allTracks = <<>>
     THEN /\ ReturnError("EmptyInput")
          /\ lastStep' = "emptyInput"
          /\ UNCHANGED seedTracks
     ELSE /\ pc' = "loop"
          /\ seedTracks' = allTracks
          /\ lastStep' = "entered"
          /\ UNCHANGED result
  /\ UNCHANGED <<collaborators, cfg, allTracks, vertexingOptions,
                 removedSeedTracks, searchTracks, currentConstraint, iteration, allVertices,
                 allVerticesPtr, heap, fitterState, seedFinderState, lastEval,
                 calls, firstError, acceptedAt>>

\* The condition of the while loop without the test of seedTracks (a
\* second disjunct that does not look at seedTracks).
LoopConditionWithoutTracks ==
  /\ \/ cfg.addSingleTrackVertices /\ seedTracks # <<>>
     \/ ~cfg.addSingleTrackVertices
  /\ iteration < cfg.maxIterations

\* The condition of the while loop without its bound on iteration.
LoopConditionUnbounded ==
  \/ cfg.addSingleTrackVertices /\ seedTracks # <<>>
  \/ ~cfg.addSingleTrackVertices /\ seedTracks # <<>>

\* Lines 36-38: the condition of the while loop.
LoopCondition ==
  /\ \/ cfg.addSingleTrackVertices /\ seedTracks # <<>>
     \/ ~cfg.addSingleTrackVertices /\ seedTracks # <<>>
  /\ iteration < cfg.maxIterations

\* The loop head with currentConstraint declared before the loop: it is not
\* set again from the options.
LoopHeadKeepingConstraint ==
  /\ pc = "loop"
  /\ IF LoopCondition
     THEN /\ pc' = "seed"
          /\ searchTracks' = IF cfg.doRealMultiVertex THEN allTracks
                             ELSE seedTracks
          /\ lastStep' = "iterationStarted"
     ELSE /\ pc' = "output"
          /\ lastStep' = "loopLeft"
          /\ UNCHANGED searchTracks
  /\ UNCHANGED <<collaborators, cfg, allTracks, vertexingOptions, seedTracks,
                 removedSeedTracks, iteration, allVertices, allVerticesPtr,
                 heap, fitterState, seedFinderState, lastEval, result, calls,
                 firstError, acceptedAt, currentConstraint>>

\* Lines 36-47: the loop is entered (search tracks and constraint are set) or left.
LoopHead ==
  /\ pc = "loop"
  /\ IF LoopCondition
     THEN /\ pc' = "seed"
          /\ searchTracks' = IF cfg.doRealMultiVertex THEN allTracks
                             ELSE seedTracks
          /\ currentConstraint' = vertexingOptions.constraint
          /\ lastStep' = "iterationStarted"
     ELSE /\ pc' = "output"
          /\ lastStep' = "loopLeft"
          /\ UNCHANGED <<searchTracks, currentConstraint>>
  /\ UNCHANGED <<collaborators, cfg, allTracks, vertexingOptions, seedTracks,
                 removedSeedTracks, iteration, allVertices, allVerticesPtr,
                 heap, fitterState, seedFinderState, lastEval, result, calls,
                 firstError, acceptedAt>>

\* The comparison of lines 61-62 with != in the place of ==.
IsSeedSentinelNegated(vtx) == vtx.pos.z # vertexingOptions.constraint.pos.z

\* Lines 61-62: the seed finder found no seed.
IsSeedSentinel(vtx) == vtx.pos.z = vertexingOptions.constraint.pos.z

\* Lines 48-72: seeding, the new candidate, and the check of the seed.
Seeding ==
  /\ pc = "seed"
  /\ \E seedResult \in SeedResults, a \in NewAddresses :
       LET r == DoSeeding(seedTracks, currentConstraint, vertexingOptions,
                          removedSeedTracks, seedResult)
       IN /\ seedFinderState' = r.seedFinderState
          /\ calls' = [calls EXCEPT !.seed = @ + 1]
          /\ IF r.error # "none"
             THEN /\ ReturnError(r.error)
                  /\ firstError' = r.error
                  /\ lastStep' = "seedError"
                  /\ UNCHANGED <<currentConstraint, allVertices,
                                 allVerticesPtr, heap, removedSeedTracks>>
             ELSE /\ currentConstraint' = r.constraint
                  /\ UNCHANGED <<result, firstError>>
                  /\ IF IsSeedSentinel(r.seedVertex)
                     THEN /\ allVertices' = PopBack(Append(allVertices, a))
                          /\ allVerticesPtr' = PopBack(Append(allVerticesPtr, a))
                          /\ pc' = BreakTarget
                          /\ lastStep' = "noSeed"
                          /\ UNCHANGED <<heap, removedSeedTracks>>
                     ELSE /\ allVertices' = Append(allVertices, a)
                          /\ allVerticesPtr' = Append(allVerticesPtr, a)
                          /\ heap' = heap @@ (a :> r.seedVertex)
                          /\ removedSeedTracks' = <<>>
                          /\ pc' = "prepare"
                          /\ lastStep' = "seeded"
  /\ UNCHANGED <<collaborators, cfg, allTracks, vertexingOptions, seedTracks,
                 searchTracks, iteration, fitterState, lastEval, acceptedAt>>

\* What the estimator may return in one attachment to a vertex at z = vtxZ:
\* one result for every track of the list it is called for, the same result
\* for the same track (getImpactParameters is a function of the track
\* parameters, the vertex and the two contexts).
IPResults(tracks, vtxZ) ==
  {ip \in [{i \in DOMAIN tracks :
              ~(cfg.tracksMaxZinterval < Abs(TrackZ(tracks[i]) - vtxZ))}
            -> IPResult(cfg)] :
     \A i, j \in DOMAIN ip : tracks[i] = tracks[j] => ip[i] = ip[j]}

\* The second attachment is run when the first one ends without a link and
\* there is a seed track; the vertex is then at the z of the nearest one.
SecondIPResults(ip1) ==
  LET fs1 == [fitterState EXCEPT !.vtxInfoMap =
                 (VtxCandidate :> NewVertexInfo(currentConstraint,
                                                heap[VtxCandidate].pos)) @@ @]
      r == AddCompatibleTracksToVertex(searchTracks, VtxCandidate,
                                       heap[VtxCandidate].pos.z, fs1, ip1)
      near == NearestTrack(seedTracks, heap[VtxCandidate].pos.z)
  IN IF /\ r.error = "none"
        /\ r.fs.vtxInfoMap[VtxCandidate].trackLinks = <<>>
        /\ near # 0
     THEN IPResults(searchTracks, TrackZ(seedTracks[near]))
     ELSE {<<>>}

\* Lines 74-87: canPrepareVertexForFit and the handling of its result.
PreparationWith(ip1, ip2) ==
  /\ LET r == CanPrepareVertexForFit(searchTracks, seedTracks, VtxCandidate,
                currentConstraint, fitterState, heap, ip1, ip2)
     IN /\ calls' = [calls EXCEPT !.ip = @ + r.calls]
        /\ fitterState' = r.fs
        /\ IF r.error # "none"
           THEN /\ ReturnError(r.error)
                /\ firstError' = r.error
                /\ lastStep' = "prepareError"
                /\ heap' = r.heap
                /\ UNCHANGED <<allVertices, allVerticesPtr>>
           ELSE /\ UNCHANGED <<result, firstError>>
                /\ IF ~r.value
                   THEN /\ allVertices' = PopBack(allVertices)
                        /\ allVerticesPtr' = PopBack(allVerticesPtr)
                        /\ heap' = [a \in DOMAIN heap \ {VtxCandidate} |->
                                      r.heap[a]]
                        /\ pc' = BreakTarget
                        /\ lastStep' = "notPrepared"
                   ELSE /\ heap' = r.heap
                        /\ pc' = "fit"
                        /\ lastStep' = "prepared"
                        /\ UNCHANGED <<allVertices, allVerticesPtr>>
  /\ UNCHANGED <<collaborators, cfg, allTracks, vertexingOptions, seedTracks,
                 removedSeedTracks, searchTracks, currentConstraint,
                 iteration, seedFinderState, lastEval, acceptedAt>>

\* Lines 74-87 for every result the estimator may return.
Preparation ==
  /\ pc = "prepare"
  /\ \E ip1 \in IPResults(searchTracks, heap[VtxCandidate].pos.z) :
     \E ip2 \in SecondIPResults(ip1) : PreparationWith(ip1, ip2)

\* Lines 99-125 on the fitter state fs and the vertices hp: the result of
\* checkVertexAndCompatibleTracks, the seed tracks after the removal, whether
\* a track was removed, and keepVertex.
Evaluate(vtx, fs, hp) ==
  LET chk == CheckVertexAndCompatibleTracks(vtx, seedTracks, fs,
               vertexingOptions.useConstraintInFit)
      upd == IF chk[1] > 0
             THEN [value |-> TRUE] @@
                  RemoveCompatibleTracksFromSeedTracks(vtx, seedTracks, fs,
                                                      removedSeedTracks)
             ELSE RemoveTrackIfIncompatible(vtx, seedTracks, fs,
                                            removedSeedTracks, hp)
  IN [nCompatibleTracks |-> chk[1],
      isGoodVertex |-> chk[2],
      removed |-> upd.value,
      seedTracks |-> upd.seedTracks,
      removedSeedTracks |-> upd.removedSeedTracks,
      keepVertex |-> chk[2] /\ KeepNewVertex(vtx, allVerticesPtr, fs, hp)]

\* Lines 88-126: addVertexToMultiMap, addVtxToFit, the check of the candidate,
\* the update of the seed tracks and the decision to keep the candidate (the
\* end of the iteration when it is kept).
FitAndEvaluateWith(fs1, out) ==
  /\ calls' = [calls EXCEPT !.fit = @ + 1]
  /\ IF out.error # "none"
     THEN /\ ReturnError(out.error)
          /\ firstError' = out.error
          /\ lastStep' = "fitError"
          /\ fitterState' = fs1
          /\ UNCHANGED <<heap, seedTracks, removedSeedTracks, lastEval,
                         allVertices, allVerticesPtr, iteration,
                         acceptedAt>>
     ELSE LET fit == FitWrites(fs1, heap, out)
              ev == Evaluate(VtxCandidate, fit.fs, fit.heap)
          IN /\ fitterState' = fit.fs
             /\ seedTracks' = ev.seedTracks
             /\ removedSeedTracks' = ev.removedSeedTracks
             /\ UNCHANGED <<result, firstError>>
             /\ IF ~ev.removed
                THEN /\ allVertices' = PopBack(allVertices)
                     /\ allVerticesPtr' = PopBack(allVerticesPtr)
                     /\ heap' = [a \in DOMAIN heap \ {VtxCandidate} |->
                                   fit.heap[a]]
                     /\ pc' = BreakTarget
                     /\ lastStep' = "noTrackRemoved"
                     /\ lastEval' =
                          [nCompatibleTracks |-> ev.nCompatibleTracks,
                           isGoodVertex |-> ev.isGoodVertex,
                           keepVertex |-> FALSE]
                     /\ UNCHANGED <<iteration, acceptedAt>>
                ELSE /\ lastEval' =
                          [nCompatibleTracks |-> ev.nCompatibleTracks,
                           isGoodVertex |-> ev.isGoodVertex,
                           keepVertex |-> ev.keepVertex]
                     /\ heap' = fit.heap
                     /\ UNCHANGED <<allVertices, allVerticesPtr>>
                     /\ IF ev.keepVertex
                        THEN /\ iteration' = iteration + 1
                             /\ acceptedAt' = Append(acceptedAt,
                                                Len(allVerticesPtr))
                             /\ pc' = "loop"
                             /\ lastStep' = "kept"
                        ELSE /\ pc' = "delete"
                             /\ lastStep' = "notKept"
                             /\ UNCHANGED <<iteration, acceptedAt>>
  /\ UNCHANGED <<collaborators, cfg, allTracks, vertexingOptions, searchTracks,
                 currentConstraint, seedFinderState>>

\* Lines 88-126 for every result the fitter may return.
FitAndEvaluate ==
  /\ pc = "fit"
  /\ LET fs1 == AddVtxToFitCollection(
                  AddVertexToMultiMap(fitterState, VtxCandidate), VtxCandidate)
     IN \E error \in FitResults :
        \E vtx \in FitVertexWrites(fs1, error),
           new \in FitNewTrackWrites(fs1, error, VtxCandidate),
           old \in FitOldTrackWrites(fs1, error, VtxCandidate) :
          FitAndEvaluateWith(fs1, [error |-> error, vtx |-> vtx,
                                   trk |-> new @@ old])

\* Lines 127-135: deleteLastVertex and the end of the iteration.
Deletion ==
  /\ pc = "delete"
  /\ LET d == DeleteLastVertexBeforeFit(VtxCandidate, allVertices,
                allVerticesPtr, fitterState, heap)
     IN /\ allVertices' = d.allVertices
        /\ allVerticesPtr' = d.allVerticesPtr
        /\ IF d.error # "none"
           THEN /\ ReturnError(d.error)
                /\ firstError' = d.error
                /\ lastStep' = "deleteError"
                /\ fitterState' = d.fs
                /\ heap' = d.heap
                /\ UNCHANGED <<iteration, acceptedAt, calls>>
           ELSE \E error \in IF d.refit THEN FitResults ELSE {"none"} :
                \E vtx \in FitVertexWrites(d.fs, error),
                   old \in FitOldTrackWrites(d.fs, error, 0) :
                  LET out == [error |-> error, vtx |-> vtx, trk |-> old] IN
                  /\ calls' = [calls EXCEPT !.fit = @ + IF d.refit THEN 1 ELSE 0]
                  /\ IF out.error # "none"
                     THEN /\ ReturnError(out.error)
                          /\ firstError' = out.error
                          /\ lastStep' = "refitError"
                          /\ fitterState' = d.fs
                          /\ heap' = d.heap
                          /\ UNCHANGED <<iteration, acceptedAt>>
                     ELSE /\ LET fit == FitWrites(d.fs, d.heap, out)
                             IN /\ fitterState' = fit.fs
                                /\ heap' = fit.heap
                          /\ iteration' = iteration + 1
                          /\ acceptedAt' = Append(acceptedAt,
                                                  Len(d.allVerticesPtr))
                          /\ pc' = "loop"
                          /\ lastStep' = IF d.refit THEN "deletedAndRefitted"
                                         ELSE "deleted"
                          /\ UNCHANGED <<result, firstError>>
  /\ UNCHANGED <<collaborators, cfg, allTracks, vertexingOptions, seedTracks,
                 removedSeedTracks, searchTracks, currentConstraint,
                 seedFinderState, lastEval>>

\* Line 138: getVertexOutputList.
Output ==
  /\ pc = "output"
  /\ pc' = "done"
  /\ result' = [error |-> "none",
                vertices |-> GetVertexOutputList(allVerticesPtr, fitterState,
                                                 heap)]
  /\ heap' = [a \in DOMAIN heap |->
                IF a \in Range(allVerticesPtr)
                THEN [heap[a] EXCEPT
                        !.tracksAtVertex = TracksAtVertex(a, fitterState)]
                ELSE heap[a]]
  /\ lastStep' = "returned"
  /\ UNCHANGED <<collaborators, cfg, allTracks, vertexingOptions, seedTracks,
                 removedSeedTracks, searchTracks, currentConstraint,
                 iteration, allVertices, allVerticesPtr, fitterState,
                 seedFinderState, lastEval, calls, firstError, acceptedAt>>

Next ==
  \/ FindEntry
  \/ LoopHead
  \/ Seeding
  \/ Preparation
  \/ FitAndEvaluate
  \/ Deletion
  \/ Output

Spec == Init /\ [][Next]_vars

\* find is sequential code: a step that can be taken is taken.
FairSpec == Spec /\ WF_vars(Next)

----------------------------------------------------------------------------
(* Properties of find.                                                     *)

\* The last vertex of allVerticesPtr.
LastVertex == allVerticesPtr[Len(allVerticesPtr)]

NoCalls == [seed |-> 0, ip |-> 0, fit |-> 0]

\* C1: find called with an empty track list returns the error EmptyInput,
\* and does so before any collaborator is called and before any working set
\* (seed tracks, vertices, fitter state) is created.
EmptyInputReturnsFirst ==
  allTracks = <<>> =>
    /\ pc \in {"start", "done"}
    /\ pc = "done" => result = [error |-> "EmptyInput", vertices |-> <<>>]
    /\ calls = NoCalls
    /\ seedTracks = <<>> /\ allVertices = <<>> /\ allVerticesPtr = <<>>
    /\ DOMAIN heap = {} /\ DOMAIN fitterState.vtxInfoMap = {}
    /\ iteration = 0

EmptyInputReturned ==
  pc = "done" /\ allTracks = <<>> /\ result.error = "EmptyInput"

\* C2, as stated: on success no two vertices of the returned list satisfy
\* the merge predicate on their final positions and covariances.
NoReturnedPairMerged ==
  pc = "done" /\ result.error = "none" =>
    \A i, j \in DOMAIN result.vertices :
       i # j => ~MergedPair(result.vertices[i], result.vertices[j])

\* C2, amended: when a candidate is kept, it does not satisfy the merge
\* predicate with any vertex accepted before it, on the positions and
\* covariances they have right after the candidate's fit.
KeptVertexNotMerged ==
  lastStep = "kept" =>
    \A i \in 1..(Len(allVerticesPtr) - 1) :
       ~MergedPair(heap[LastVertex], heap[allVerticesPtr[i]])

KeptNextToAccepted ==
  /\ lastStep = "kept"
  /\ Len(allVerticesPtr) >= 2
  /\ heap[LastVertex].pos.z # heap[allVerticesPtr[1]].pos.z

\* contamination <= maximumVertexContamination for the vertex vtx.
WithinContamination(vtx) ==
  LET c == Contamination(vtx, fitterState)
  IN c.num * cfg.maximumVertexContaminationDen
       <= cfg.maximumVertexContaminationNum * c.den

\* C3, as stated: on success no returned vertex has, with the final track
\* weights of the fitter state, a contamination above
\* maximumVertexContamination.
NoReturnedVertexContaminated ==
  pc = "done" /\ result.error = "none" =>
    \A i \in DOMAIN allVerticesPtr : WithinContamination(allVerticesPtr[i])

\* C3, amended: when a candidate is kept, its contamination, on the track
\* weights right after the candidate's fit, is at most
\* maximumVertexContamination.
KeptVertexNotContaminated ==
  lastStep = "kept" => WithinContamination(LastVertex)

KeptWithSharedWeight ==
  /\ lastStep = "kept"
  /\ Contamination(LastVertex, fitterState).num > 0

\* C4: the number of iterations started, which is the number of calls of
\* the seed finder, is at most maxIterations; with maxIterations <= 0 and a
\* non-empty input find returns an empty list without calling a collaborator.
IterationsBounded ==
  /\ calls.seed <= (IF cfg.maxIterations > 0 THEN cfg.maxIterations ELSE 0)
  /\ pc = "seed" => calls.seed = iteration /\ iteration < cfg.maxIterations
  /\ (cfg.maxIterations <= 0 /\ allTracks # <<>> /\ pc = "done") =>
       /\ result = [error |-> "none", vertices |-> <<>>]
       /\ calls = NoCalls

IterationBoundReached ==
  /\ pc = "done" /\ result.error = "none"
  /\ cfg.maxIterations > 0 /\ calls.seed = cfg.maxIterations
  /\ seedTracks # <<>> /\ lastStep = "returned"
  /\ iteration = cfg.maxIterations

\* The iterations the loop condition still admits.
IterationsLeft ==
  IF iteration < cfg.maxIterations THEN cfg.maxIterations - iteration ELSE 0

\* The steps find can still take, at most: five for every iteration left
\* (less what the current iteration has done), one for the output list and
\* one for the entry.
StepsLeft ==
  CASE pc = "done" -> 0
    [] pc = "output" -> 1
    [] pc = "loop" -> 2 + 5 * IterationsLeft
    [] pc = "seed" -> 1 + 5 * IterationsLeft
    [] pc = "prepare" -> 5 * IterationsLeft
    [] pc = "fit" -> 5 * IterationsLeft - 1
    [] pc = "delete" -> 5 * IterationsLeft - 2
    [] pc = "start" -> 3 + 5 * IterationsLeft

\* find can take a step.  PreparationWith and FitAndEvaluateWith set every
\* variable whatever result they are given, so these two steps can be taken
\* when the collaborator has a result to return.
CanStep ==
  CASE pc = "prepare" ->
         \E ip1 \in IPResults(searchTracks, heap[VtxCandidate].pos.z) :
            SecondIPResults(ip1) # {}
    [] pc = "fit" ->
         LET fs1 == AddVtxToFitCollection(
                      AddVertexToMultiMap(fitterState, VtxCandidate),
                      VtxCandidate)
         IN \E error \in FitResults :
              /\ FitVertexWrites(fs1, error) # {}
              /\ FitNewTrackWrites(fs1, error, VtxCandidate) # {}
              /\ FitOldTrackWrites(fs1, error, VtxCandidate) # {}
    [] OTHER -> ENABLED Next

\* C5: find always terminates, provided every collaborator call returns:
\* until find has returned it can take a step whatever the collaborators
\* return, and every step (the loop bound, seedTracks running empty, a break
\* or an error return included) lowers a natural number.
FindReturns ==
  /\ [](StepsLeft \in Nat)
  /\ [](pc # "done" => CanStep)
  /\ [][StepsLeft' < StepsLeft]_vars

ReturnedAfterIterations ==
  pc = "done" /\ result.error = "none" /\ iteration = cfg.maxIterations
    /\ iteration > 0

\* C6: when a call of a collaborator fails, find returns exactly that first
\* error and no vertices, whatever was accepted before, and takes no further
\* step, so that no collaborator is called after the error.
FirstErrorIsReturned ==
  /\ [](firstError # "none" =>
          /\ pc = "done"
          /\ result = [error |-> firstError, vertices |-> <<>>])
  /\ [][firstError = "none"]_vars

ErrorAfterAcceptedVertex ==
  /\ pc = "done" /\ firstError # "none"
  /\ allVerticesPtr # <<>>
  /\ \E k \in DOMAIN acceptedAt : acceptedAt[k] > 0

\* C7: on success every returned vertex has a non-empty track-at-vertex list,
\* unless addSingleTrackVertices and useConstraintInFit are both true.
ReturnedVerticesHaveTracks ==
  ( /\ pc = "done" /\ result.error = "none"
    /\ ~(cfg.addSingleTrackVertices /\ vertexingOptions.useConstraintInFit) )
  => \A i \in DOMAIN result.vertices :
        result.vertices[i].tracksAtVertex # <<>>

ReturnedWithoutSingleTrackVertices ==
  /\ pc = "done" /\ result.error = "none"
  /\ ~(cfg.addSingleTrackVertices /\ vertexingOptions.useConstraintInFit)
  /\ result.vertices # <<>>

\* C8: a seeding step either returns the seed finder's error, or pushes a
\* candidate whose z differs from the z of the original constraint, or (the
\* seed has the z of the original constraint) stops the loop: the candidate
\* is popped, allVertices, allVerticesPtr, the vertices, seedTracks and the
\* fitter state are as before, the estimator and the fitter are not called;
\* and the step after it returns the vertices accepted before.
SeedSentinelStopsLoop ==
  /\ [][pc = "seed" =>
          \/ lastStep' = "seedError" /\ firstError' # "none"
          \/ /\ lastStep' = "seeded"
             /\ Len(allVerticesPtr') = Len(allVerticesPtr) + 1
             /\ heap'[allVerticesPtr'[Len(allVerticesPtr')]].pos.z
                  # vertexingOptions.constraint.pos.z
          \/ /\ lastStep' = "noSeed"
             /\ pc' = "output"
             /\ UNCHANGED <<allVertices, allVerticesPtr, heap, seedTracks,
                            fitterState, iteration>>
             /\ calls'.ip = calls.ip /\ calls'.fit = calls.fit]_vars
  /\ [][lastStep = "noSeed" =>
          /\ pc' = "done"
          /\ calls' = calls
          /\ result' = [error |-> "none",
                        vertices |-> GetVertexOutputList(allVerticesPtr,
                                                         fitterState, heap)]]_vars

NoSeedAfterAcceptedVertex ==
  /\ pc = "done" /\ lastStep = "returned"
  /\ Len(result.vertices) >= 1
  /\ seedTracks # <<>> /\ iteration < cfg.maxIterations
  /\ calls.seed = iteration + 1 /\ calls.fit = iteration

\* C10, as stated: a run returns at least as many vertices as were accepted
\* at the end of each of its iterations, which is what the run with that
\* smaller maxIterations returns.
ReturnedCountMonotoneInMaxIterations ==
  pc = "done" =>
    \A k \in DOMAIN acceptedAt : acceptedAt[k] <= Len(result.vertices)

\* C10, amended: the number of accepted vertices at the end of iteration k
\* never decreases as k grows, and a run that returns a vertex list returns
\* at least as many vertices as the run with a smaller maxIterations; a run
\* that returns an error returns none.
AcceptedCountMonotone ==
  /\ \A j, k \in DOMAIN acceptedAt : j <= k => acceptedAt[j] <= acceptedAt[k]
  /\ Len(acceptedAt) = iteration
  /\ pc = "done" /\ result.error = "none" =>
       \A k \in DOMAIN acceptedAt : acceptedAt[k] <= Len(result.vertices)

ReturnedMoreThanAfterFirstIteration ==
  /\ pc = "done" /\ result.error = "none"
  /\ Len(acceptedAt) >= 2
  /\ acceptedAt[1] < Len(result.vertices)

RECURSIVE IsSubsequence(_, _)
IsSubsequence(s, t) ==
  IF s = <<>> THEN TRUE
  ELSE IF t = <<>> THEN FALSE
  ELSE IF s[1] = t[1] THEN IsSubsequence(Tail(s), Tail(t))
  ELSE IsSubsequence(s, Tail(t))

\* C13, as stated: for every input track list, every element of seedTracks
\* is an element of the input list and no track is in seedTracks twice.
SeedTracksFromInputWithoutDuplicates ==
  /\ Range(seedTracks) \subseteq Range(allTracks)
  /\ \A i, j \in DOMAIN seedTracks : seedTracks[i] = seedTracks[j] => i = j

\* C13, amended: seedTracks is the input list with some of its elements
\* erased, so that every element of seedTracks is an element of the input
\* list and a track is in seedTracks at most as often as in the input list:
\* never twice when the input list holds it once.
SeedTracksSubsequenceOfInput ==
  /\ IsSubsequence(seedTracks, allTracks)
  /\ Range(seedTracks) \subseteq Range(allTracks)
  /\ \A t \in Range(seedTracks) :
       Cardinality({i \in DOMAIN seedTracks : seedTracks[i] = t})
         <= Cardinality({i \in DOMAIN allTracks : allTracks[i] = t})

SeedTrackErasedFromDuplicates ==
  /\ lastStep \in {"kept", "notKept"}
  /\ Len(allTracks) = 2 /\ allTracks[1] = allTracks[2]
  /\ seedTracks = <<allTracks[1]>>

\* How often trk is in the list s.
Count(s, trk) == Cardinality({i \in DOMAIN s : s[i] = trk})

\* C14: the list handed to the seed finder is removedSeedTracks, which is
\* empty in the first iteration and afterwards holds exactly the tracks the
\* iteration before erased from seedTracks: it is empty from the seeding call
\* of an iteration to its evaluation, takes every track the evaluation erases
\* from seedTracks, and is left alone, as is seedTracks, until the next
\* seeding call.
RemovedTracksHandedToSeedFinder ==
  /\ [](/\ pc = "seed" /\ iteration = 0 => removedSeedTracks = <<>>
        /\ pc \in {"prepare", "fit"} => removedSeedTracks = <<>>)
  /\ [][/\ pc = "seed" =>
             /\ seedFinderState'.tracksToRemove = removedSeedTracks
             /\ seedTracks' = seedTracks
             /\ removedSeedTracks' \in {<<>>, removedSeedTracks}
        /\ pc = "fit" =>
             \A trk \in TrackIds :
               Count(removedSeedTracks', trk)
                 = Count(seedTracks, trk) - Count(seedTracks', trk)
        /\ pc \in {"loop", "delete", "prepare"} =>
             UNCHANGED <<seedTracks, removedSeedTracks>>]_vars

RemovedTracksSeenBySeedFinder ==
  /\ lastStep = "seeded"
  /\ iteration >= 1
  /\ seedFinderState.tracksToRemove # <<>>
  /\ removedSeedTracks = <<>>

\* C15: allVerticesPtr holds the accepted vertices in the order of their
\* acceptance (a seeding step appends the candidate, an accepting step leaves
\* it at the back, every other end of an iteration pops it and nothing else
\* changes the list), and a successful return is that list, every vertex with
\* the tracksAtVerticesMap records of its trackLinks, in trackLinks order.
ReturnsAcceptedVerticesInOrder ==
  /\ [][pc = "seed" =>
          \/ allVerticesPtr' = allVerticesPtr
          \/ /\ Front(allVerticesPtr') = allVerticesPtr
             /\ Len(allVerticesPtr') = Len(allVerticesPtr) + 1
             /\ lastStep' = "seeded"]_vars
  /\ [][(pc \in {"prepare", "fit", "delete"}) =>
          \/ /\ lastStep' \in {"kept", "prepared", "notKept"}
             /\ allVerticesPtr' = allVerticesPtr
          \/ /\ lastStep' \notin {"kept", "prepared", "notKept"}
             /\ pc' \in {"loop", "output"}
             /\ allVerticesPtr' = Front(allVerticesPtr)
          \/ /\ pc' = "done"
             /\ result'.error # "none"]_vars
  /\ [][(pc \in {"start", "loop", "output"}) =>
          allVerticesPtr' = allVerticesPtr]_vars
  /\ [][pc' = "done" /\ result'.error = "none" /\ pc # "start" =>
          /\ pc = "output"
          /\ Len(result'.vertices) = Len(allVerticesPtr)
          /\ \A i \in DOMAIN allVerticesPtr :
               LET vtx == allVerticesPtr[i]
                   links == fitterState.vtxInfoMap[vtx].trackLinks
               IN /\ result'.vertices[i].pos = heap[vtx].pos
                  /\ result'.vertices[i].cov = heap[vtx].cov
                  /\ Len(result'.vertices[i].tracksAtVertex) = Len(links)
                  /\ \A j \in DOMAIN links :
                       result'.vertices[i].tracksAtVertex[j]
                         = fitterState.tracksAtVerticesMap[<<links[j], vtx>>]]_vars

ReturnedTwoVerticesWithTwoTracks ==
  /\ pc = "done" /\ result.error = "none"
  /\ Len(result.vertices) >= 2
  /\ \E i \in DOMAIN result.vertices :
       /\ Len(result.vertices[i].tracksAtVertex) >= 2
       /\ result.vertices[i].tracksAtVertex[1]
            # result.vertices[i].tracksAtVertex[2]

\* The thresholds of addCompatibleTracksToVertex let every track pass: no z
\* distance of a run is above 5 and no significance above 3.
NoTrackFiltered ==
  cfg.tracksMaxZinterval > 5 /\ cfg.tracksMaxSignificance > 3

CandidateStaysIffGoodCleanAndUnmerged ==
  /\ [](lastStep \in {"kept", "notKept"} =>
          /\ allVertices = allVerticesPtr
          /\ allVertices # <<>>
          /\ (lastStep = "kept") =
               ( /\ lastEval.isGoodVertex
                 /\ ~IsContaminated(LastVertex, fitterState)
                 /\ ~IsMergedVertex(LastVertex, allVerticesPtr, heap) )
          /\ pc = IF lastStep = "kept" THEN "loop" ELSE "delete")
  /\ [][pc = "fit" /\ lastStep' \in {"kept", "notKept"} =>
          /\ allVertices' = allVertices
          /\ allVerticesPtr' = allVerticesPtr
          /\ iteration' = iteration + IF lastStep' = "kept" THEN 1 ELSE 0]_vars
  /\ [][pc = "delete" =>
          /\ allVertices' = Front(allVertices)
          /\ allVerticesPtr' = Front(allVerticesPtr)
          /\ VtxCandidate \notin Range(allVerticesPtr')
          /\ \/ pc' = "loop" /\ iteration' = iteration + 1
             \/ pc' = "done" /\ result'.error # "none"]_vars

GoodCandidateRejectedAndRemoved ==
  /\ lastStep \in {"deleted", "deletedAndRefitted"}
  /\ lastEval.isGoodVertex /\ ~lastEval.keepVertex
  /\ allVerticesPtr # <<>>

\* The links of the candidate that are compatible with it in the fitter state
\* fs and are in the seed tracks seedTrks, by their place in trackLinks.
CompatibleSeedLinks(vtx, seedTrks, fs) ==
  LET links == fs.vtxInfoMap[vtx].trackLinks
  IN {i \in DOMAIN links :
        /\ IsCompatibleTrack(fs.tracksAtVerticesMap[<<links[i], vtx>>])
        /\ links[i] \in Range(seedTrks)}

GoodVertexIffEnoughCompatibleSeedLinks ==
  [][pc = "fit" /\ lastStep' # "fitError" =>
       LET n == Cardinality(CompatibleSeedLinks(VtxCandidate, seedTracks,
                                                fitterState'))
       IN lastEval'.isGoodVertex =
            ( \/ /\ cfg.addSingleTrackVertices
                 /\ vertexingOptions.useConstraintInFit
                 /\ n >= 1
              \/ n >= 2 )]_vars

GoodWithSecondLinkOnly ==
  /\ lastStep \in {"kept", "notKept"}
  /\ lastEval.isGoodVertex
  /\ lastEval.nCompatibleTracks = 1
  /\ LET links == fitterState.vtxInfoMap[LastVertex].trackLinks
     IN /\ Len(links) = 2
        /\ ~IsCompatibleTrack(
              fitterState.tracksAtVerticesMap[<<links[1], LastVertex>>])
        /\ IsCompatibleTrack(
              fitterState.tracksAtVerticesMap[<<links[2], LastVertex>>])

\* Whether trk is a link of vtx that is compatible with it in fs.
CompatibleLink(trk, vtx, fs) ==
  /\ trk \in Range(fs.vtxInfoMap[vtx].trackLinks)
  /\ IsCompatibleTrack(fs.tracksAtVerticesMap[<<trk, vtx>>])

\* C20: when nCompatibleTracks > 0, the removal leaves in seedTracks
\* no compatible link of the candidate and every other element in its order,
\* and removedSeedTracks takes every track erased, whether the candidate is
\* kept or not.
ErasesEveryCompatibleLink ==
  [][pc = "fit" /\ lastStep' # "fitError" /\ lastEval'.nCompatibleTracks > 0 =>
       LET Kept(trk) == ~CompatibleLink(trk, VtxCandidate, fitterState')
       IN /\ seedTracks' = SelectSeq(seedTracks, Kept)
          /\ \A trk \in TrackIds :
               Count(removedSeedTracks', trk)
                 = Count(seedTracks, trk) - Count(seedTracks', trk)
          /\ lastStep' \in {"kept", "notKept"}]_vars

CompatibleTrackErasedOfRejected ==
  /\ lastStep = "notKept"
  /\ lastEval.nCompatibleTracks > 0
  /\ removedSeedTracks # <<>>
  /\ seedTracks # <<>>
  /\ \A i \in DOMAIN removedSeedTracks :
       CompatibleLink(removedSeedTracks[i], LastVertex, fitterState)

DeleteLastVertexUnregistersAndRefits ==
  [][pc = "delete" =>
       /\ lastEval.keepVertex = FALSE
       /\ allVertices' = Front(allVertices)
       /\ allVerticesPtr' = Front(allVerticesPtr)
       /\ \A e \in Range(fitterState'.multiMap) : e[2] # VtxCandidate
       /\ VtxCandidate \notin Range(fitterState'.vertexCollection)
       /\ lastStep' # "deleteError"
       /\ \A k \in DOMAIN fitterState.tracksAtVerticesMap :
            IF k[2] = VtxCandidate
            THEN ~fitterState'.tracksAtVerticesMap[k].isLinearized
            ELSE fitterState.tracksAtVerticesMap[k].isLinearized
                   => fitterState'.tracksAtVerticesMap[k].isLinearized
       /\ calls'.fit = calls.fit
                         + IF fitterState'.vertexCollection # <<>> THEN 1 ELSE 0
       /\ calls'.seed = calls.seed /\ calls'.ip = calls.ip]_vars

RejectedUnlinearizedAndRefitted ==
  /\ lastStep = "deletedAndRefitted"
  /\ \E k \in DOMAIN fitterState.tracksAtVerticesMap :
       /\ k[2] \notin Range(allVertices)
       /\ ~fitterState.tracksAtVerticesMap[k].isLinearized
  /\ \E k \in DOMAIN fitterState.tracksAtVerticesMap :
       /\ k[2] \in Range(allVertices)
       /\ fitterState.tracksAtVerticesMap[k].isLinearized

\* C23: a preparation that ends without an error either leaves the candidate
\* where the seed put it, with a linked track, after one attachment, or (the
\* first attachment linked no track) has moved it to (0, 0, z, 0) with z the
\* z of a seed track nearest to it, rebuilt its VertexInfo from the current
\* constraint and the new position and run a second attachment over the
\* tracks searched; when the candidate then still has no link, find pops it,
\* calls no fitter for it and returns the vertices accepted before.
RecoversAtNearestSeedTrackOrStops ==
  /\ [][pc = "prepare" /\ lastStep' \in {"prepared", "notPrepared"} =>
          LET vtx == VtxCandidate
              old == heap[vtx].pos
              called == calls'.ip - calls.ip
              info == fitterState'.vtxInfoMap[vtx]
              Window(z) ==
                {i \in DOMAIN searchTracks :
                   ~(cfg.tracksMaxZinterval < Abs(TrackZ(searchTracks[i]) - z))}
              nearest ==
                {trk \in Range(seedTracks) :
                   \A o \in Range(seedTracks) :
                     Abs(TrackZ(trk) - old.z) <= Abs(TrackZ(o) - old.z)}
          IN /\ info.constraint = currentConstraint
             /\ calls'.fit = calls.fit /\ calls'.seed = calls.seed
             /\ \/ /\ lastStep' = "prepared"
                   /\ called = Cardinality(Window(old.z))
                   /\ heap'[vtx].pos = old
                   /\ info.seedPosition = old
                   /\ info.trackLinks # <<>>
                \/ \E trk \in nearest :
                     LET new == Vec(0, 0, TrackZ(trk), 0)
                     IN /\ called = Cardinality(Window(old.z))
                                      + Cardinality(Window(new.z))
                        /\ info.seedPosition = new
                        /\ \A t \in Range(info.trackLinks) :
                             \E i \in Window(new.z) : searchTracks[i] = t
                        /\ IF info.trackLinks # <<>>
                           THEN /\ lastStep' = "prepared"
                                /\ heap'[vtx].pos = new
                                /\ allVerticesPtr' = allVerticesPtr
                           ELSE /\ lastStep' = "notPrepared"
                                /\ allVertices' = Front(allVertices)
                                /\ allVerticesPtr' = Front(allVerticesPtr)
                                /\ pc' = "output"]_vars
  /\ [][lastStep = "notPrepared" =>
          /\ pc' = "done"
          /\ calls' = calls
          /\ result'.error = "none"
          /\ Len(result'.vertices) = Len(allVerticesPtr)
          /\ \A i \in DOMAIN allVerticesPtr :
               result'.vertices[i].pos = heap[allVerticesPtr[i]].pos]_vars

CandidateDiscardedAfterRetry ==
  /\ lastStep = "notPrepared"
  /\ pc = "output"
  /\ allVerticesPtr # <<>>
  /\ \E vtx \in DOMAIN fitterState.vtxInfoMap :
       /\ vtx \notin Range(allVerticesPtr)
       /\ fitterState.vtxInfoMap[vtx].trackLinks = <<>>
       /\ fitterState.vtxInfoMap[vtx].seedPosition.z
            \in {TrackZ(trk) : trk \in Range(seedTracks)}

\* C24: after the copy of the input list, a step of find only erases
\* elements from seedTracks; the evaluation of every iteration that goes on
\* to iteration++ erases at least one, and iteration++ follows such an
\* evaluation only, so that the iterations completed are at most the tracks
\* erased, and at most the input tracks, whatever maxIterations is.
EveryIterationErasesASeedTrack ==
  /\ [][pc # "start" =>
          /\ IsSubsequence(seedTracks', seedTracks)
          /\ Len(seedTracks') <= Len(seedTracks)]_vars
  /\ [][pc = "fit" /\ lastStep' \in {"kept", "notKept"} =>
          Len(seedTracks') < Len(seedTracks)]_vars
  /\ [][iteration' # iteration =>
          /\ iteration' = iteration + 1
          /\ \/ pc = "fit" /\ lastStep' = "kept"
             \/ pc = "delete" /\ lastStep = "notKept"]_vars
  /\ [](pc # "start" =>
          /\ iteration + Len(seedTracks) <= Len(allTracks)
          /\ pc = "delete" => iteration + 1 + Len(seedTracks) <= Len(allTracks))

IterationsStoppedByTracks ==
  /\ pc = "done" /\ result.error = "none"
  /\ iteration = Len(allTracks)
  /\ iteration < cfg.maxIterations
  /\ seedTracks = <<>>

SeedFinderGetsOriginalConstraint ==
  /\ [](pc = "seed" => currentConstraint = vertexingOptions.constraint)
  /\ [][vertexingOptions' = vertexingOptions]_vars
  /\ [][pc = "seed" =>
          /\ seedFinderState'.constraint = vertexingOptions.constraint
          /\ lastStep' = "seeded" =>
               LET seed == heap'[allVerticesPtr'[Len(allVerticesPtr')]]
               IN currentConstraint' =
                    IF vertexingOptions.useConstraintInFit
                    THEN IF cfg.useSeedConstraint
                         THEN [vertexingOptions.constraint
                                 EXCEPT !.pos = seed.pos, !.cov = seed.cov]
                         ELSE vertexingOptions.constraint
                    ELSE [pos |-> seed.pos,
                          cov |-> Vec(cfg.looseConstrValue,
                                      cfg.looseConstrValue,
                                      cfg.looseConstrValue,
                                      cfg.looseConstrValue),
                          fitQuality |-> cfg.defaultConstrFitQuality]]_vars
  /\ [][pc = "prepare" /\ lastStep' \in {"prepared", "notPrepared"} =>
          /\ fitterState'.vtxInfoMap[VtxCandidate].constraint
               = currentConstraint
          /\ currentConstraint' = currentConstraint]_vars

SecondSeedingWithOriginalConstraint ==
  /\ lastStep = "seeded"
  /\ iteration >= 1
  /\ calls.seed = 2
  /\ seedFinderState.constraint = vertexingOptions.constraint
  /\ currentConstraint # vertexingOptions.constraint
  /\ \E vtx \in DOMAIN fitterState.vtxInfoMap :
       fitterState.vtxInfoMap[vtx].constraint # vertexingOptions.constraint

====
